---------------------------- MODULE Spec2Model ----------------------------
(***************************************************************************)
(* State-machine model of src/src/shader.rs (rust-doom): the Shader        *)
(* facade, the VertexShader / FragmentShader / Program handle wrappers,    *)
(* compile_any, Program::link, the log readers and file_contents, run      *)
(* against a graphics driver that hands out object names, keeps a compile  *)
(* / link status and an info log per object, one active program and one    *)
(* error flag.                                                             *)
(*                                                                         *)
(* One step of the model is one driver call site of the source together    *)
(* with the host code up to the next call site.  A panic (a failed         *)
(* assert!, a failed unwrap, a bridge fault found by check_gl!) unwinds:    *)
(* the wrapper values that are live at that point are dropped, newest      *)
(* first, and the process ends.                                            *)
(***************************************************************************)
EXTENDS Integers, Sequences, FiniteSets, TLC

(***************************************************************************)
(* Bounds of the model.                                                    *)
(***************************************************************************)
MaxOps == 4          \* top-level calls the application makes in one run
MaxLoc == 1          \* uniform locations the driver hands out: 0..MaxLoc
MaxValue == 2        \* uniform values: 1..MaxValue

(***************************************************************************)
(* Program constants and input alphabets.                                  *)
(***************************************************************************)
VERTEX_SHADER == 35633
FRAGMENT_SHADER == 35632

Sources == {"srcA", "srcB"}
Paths == {"v.glsl", "f.glsl"}
Names == {"u_name"}
Locations == 0..MaxLoc
Values == 1..MaxValue

\* Info logs the driver may keep for an object whose compile / link failed:
\* no log at all, a text with its terminating NUL, or bytes that are not
\* UTF-8.
InfoLogs == { <<>>, <<"E", "NUL">>, <<"xFF", "NUL">> }

\* What reading a file can yield: its text, an I/O error, bytes that are
\* not UTF-8.
FileStates == {"text", "FileNotFound", "PermissionDenied", "not_utf8"}

VARIABLES
  \* ---- the driver (graphics collaborator)
  glShaders,    \* live shader objects: name -> [type, source, status, log]
  glPrograms,   \* live program objects: name -> [attached, status, log]
  glNext,       \* the next object name the driver hands out
  glCurrent,    \* the active program (0: none)
  glError,      \* the driver's error flag (0: clear)
  glWritten,    \* the last uniform write: [program, fn, location, value]
  \* ---- the host program
  pc,           \* position of the running operation ("idle": none running)
  frame,        \* locals of new_from_files / new_from_source / compile / link
  drops,        \* wrapper values going out of scope, next to drop first
  panicking,    \* TRUE while a panic unwinds
  result,       \* what the last operation returned to its caller
  shaders,      \* Shader values the caller holds (each by its program id)
  uniforms,     \* Uniform values the caller holds (each by its location)
  \* ---- call capture of the operation in progress / last finished
  op,           \* the top-level call: [name, self, s1, s2, n1, n2]
  calls,        \* driver calls it issued, in order
  reads,        \* files it read, in order: [path, state]
  nops          \* number of top-level calls made so far

glVars == <<glShaders, glPrograms, glNext, glCurrent, glError, glWritten>>
vars == <<glShaders, glPrograms, glNext, glCurrent, glError, glWritten,
          pc, frame, drops, panicking, result, shaders, uniforms,
          op, calls, reads, nops>>

(***************************************************************************)
(* Strings are sequences of pieces; format! concatenates.                  *)
(***************************************************************************)
IsInfix(sub, s) ==
  \E i \in 0..(Len(s) - Len(sub)) :
     \A j \in 1..Len(sub) : s[i + j] = sub[j]

IsUtf8(bytes) == \A i \in 1..Len(bytes) : bytes[i] # "xFF"

(***************************************************************************)
(* Result / Option values handed to the caller.                            *)
(***************************************************************************)
NoResult == [kind |-> "none", val |-> 0, msg |-> <<>>]
Ok(v) == [kind |-> "Ok", val |-> v, msg |-> <<>>]
Err(m) == [kind |-> "Err", val |-> 0, msg |-> m]
Some(v) == [kind |-> "Some", val |-> v, msg |-> <<>>]
None == [kind |-> "None", val |-> 0, msg |-> <<>>]
Unit == [kind |-> "unit", val |-> 0, msg |-> <<>>]

(***************************************************************************)
(* Driver call capture.                                                    *)
(***************************************************************************)
Call(fn, obj, arg, txt, ret) ==
  [fn |-> fn, obj |-> obj, arg |-> arg, txt |-> txt, ret |-> ret]

\* check_gl! / check_gl_unsafe!: the wrapped call, then the error query.
check_gl(call, err) == <<call, Call("GetError", 0, 0, <<>>, err)>>

\* A driver call made without the bridge.
unchecked(call) == <<call>>

EmptyFrame ==
  [vertex_path |-> "", fragment_path |-> "",
   vertex_source |-> "", fragment_source |-> "",
   shader_type |-> 0, id |-> 0, log_length |-> 0, log |-> <<>>,
   vertex |-> <<>>, fragment |-> <<>>, program |-> <<>>,
   ret |-> NoResult]

Wrapper(kind, id) == [kind |-> kind, id |-> id]

\* LiveWrappers with no Drop run for the Program value.
LiveWrappers_ProgramNotDropped(f) ==
  [i \in 1..Len(f.fragment) |-> Wrapper("FragmentShader", f.fragment[i])]
  \o [i \in 1..Len(f.vertex) |-> Wrapper("VertexShader", f.vertex[i])]

\* LiveWrappers with no Drop run for the VertexShader value.
LiveWrappers_VertexNotDropped(f) ==
  [i \in 1..Len(f.program) |-> Wrapper("Program", f.program[i])]
  \o [i \in 1..Len(f.fragment) |-> Wrapper("FragmentShader", f.fragment[i])]

\* LiveWrappers dropping the values in the order of their declaration.
LiveWrappers_DeclarationOrder(f) ==
  [i \in 1..Len(f.vertex) |-> Wrapper("VertexShader", f.vertex[i])]
  \o [i \in 1..Len(f.fragment) |-> Wrapper("FragmentShader", f.fragment[i])]
  \o [i \in 1..Len(f.program) |-> Wrapper("Program", f.program[i])]

\* Wrapper values of the constructor's frames, in the order unwinding or an
\* early return drops them: link's local `program`, then the parameters
\* `fragment`, `vertex` (or new_from_source's locals, newest first).
LiveWrappers(f) ==
  [i \in 1..Len(f.program) |-> Wrapper("Program", f.program[i])]
  \o [i \in 1..Len(f.fragment) |-> Wrapper("FragmentShader", f.fragment[i])]
  \o [i \in 1..Len(f.vertex) |-> Wrapper("VertexShader", f.vertex[i])]

Remove(f, n) == [m \in (DOMAIN f) \ {n} |-> f[m]]
Put(f, n, v) == [m \in (DOMAIN f) \cup {n} |-> IF m = n THEN v ELSE f[m]]

TopCall(name, self, s1, s2, n1, n2) ==
  [name |-> name, self |-> self, s1 |-> s1, s2 |-> s2, n1 |-> n1, n2 |-> n2]
NoOp == TopCall("none", 0, "", "", 0, 0)

NothingWritten == [program |-> 0, fn |-> "", location |-> 0, value |-> 0]

Init ==
  /\ glShaders = <<>>
  /\ glPrograms = <<>>
  /\ glNext = 1
  /\ glCurrent = 0
  /\ glError = 0
  /\ glWritten = NothingWritten
  /\ pc = "idle"
  /\ frame = EmptyFrame
  /\ drops = <<>>
  /\ panicking = FALSE
  /\ result = NoResult
  /\ shaders = {}
  /\ uniforms = {}
  /\ op = NoOp
  /\ calls = <<>>
  /\ reads = <<>>
  /\ nops = 0

(***************************************************************************)
(* The driver.  A call that names an object that does not exist raises the *)
(* error flag and has no other effect; deleting name 0 is silently         *)
(* ignored; a call that allocates may fail with an error of its own        *)
(* (`fault`).  The flag keeps the first error until it is queried.         *)
(***************************************************************************)
Flag(bad) == IF bad THEN 1 ELSE glError

IsShader(id) == id \in DOMAIN glShaders
IsProgram(id) == id \in DOMAIN glPrograms
IsLinked(id) == IsProgram(id) /\ glPrograms[id].status = 1

NewShaderObject(type) ==
  [type |-> type, source |-> "", status |-> 0, log |-> <<>>]
NewProgramObject == [attached |-> {}, status |-> 0, log |-> <<>>]

(***************************************************************************)
(* Control transfer inside the constructor pipeline.                       *)
(***************************************************************************)
\* panic: unwind, dropping the wrapper values that are live in frame f.
Unwind(f) ==
  /\ pc' = "cleanup"
  /\ panicking' = TRUE
  /\ drops' = LiveWrappers(f)
  /\ frame' = EmptyFrame

\* go on to the next call site.
Goto(next, f) ==
  /\ pc' = next
  /\ frame' = f
  /\ UNCHANGED <<drops, panicking>>

\* return r from new_from_source / new_from_files: the wrapper values still
\* held in frame f go out of scope first.
Return(f, r) ==
  /\ pc' = "cleanup"
  /\ drops' = LiveWrappers(f)
  /\ frame' = [EmptyFrame EXCEPT !.ret = r]
  /\ UNCHANGED panicking

Issue(newCalls) ==
  /\ calls' = calls \o newCalls
  /\ UNCHANGED <<result, shaders, uniforms, op, reads, nops>>

Begin(call) ==
  /\ pc = "idle"
  /\ nops < MaxOps
  /\ nops' = nops + 1
  /\ op' = call
  /\ reads' = <<>>

(***************************************************************************)
(* file_contents and Shader::new_from_files.                               *)
(***************************************************************************)
\* IoError.desc is a &'static str chosen by the kind of the error.
IoDesc(state) ==
  IF state = "FileNotFound" THEN "couldn't open file"
  ELSE "permission denied"

file_contents(path, state, text) ==
  IF state \in {"FileNotFound", "PermissionDenied"}
  THEN Err(<<IoDesc(state)>>)
  ELSE IF state = "not_utf8"
  THEN Err(<<"File at '", path, "' is not valid UTF-8.">>)
  ELSE [kind |-> "Ok", val |-> 0, msg |-> <<text>>]

\* new_from_files reading the fragment file first.
new_from_files_FragmentFirst ==
  \E vertex_path \in Paths, fragment_path \in Paths :
    /\ Begin(TopCall("new_from_files", 0, vertex_path, fragment_path, 0, 0))
    /\ calls' = <<>>
    /\ result' = NoResult
    /\ Goto("file_contents_vertex",
            [EmptyFrame EXCEPT !.vertex_path = fragment_path,
                               !.fragment_path = vertex_path])
    /\ UNCHANGED <<glVars, shaders, uniforms>>

\* lines 21-25: try!(file_contents(vertex_path)), try!(file_contents(
\* fragment_path)), then Shader::new_from_source.
new_from_files ==
  \E vertex_path \in Paths, fragment_path \in Paths :
    /\ Begin(TopCall("new_from_files", 0, vertex_path, fragment_path, 0, 0))
    /\ calls' = <<>>
    /\ result' = NoResult
    /\ Goto("file_contents_vertex",
            [EmptyFrame EXCEPT !.vertex_path = vertex_path,
                               !.fragment_path = fragment_path])
    /\ UNCHANGED <<glVars, shaders, uniforms>>

read_vertex_file ==
  /\ pc = "file_contents_vertex"
  /\ \E state \in FileStates, text \in Sources :
       LET r == file_contents(frame.vertex_path, state, text) IN
       /\ reads' = Append(reads, [path |-> frame.vertex_path, state |-> state])
       /\ IF r.kind = "Ok"
          THEN Goto("file_contents_fragment",
                    [frame EXCEPT !.vertex_source = r.msg[1]])
          ELSE Return(frame, r)
  /\ UNCHANGED <<glVars, result, shaders, uniforms, op, calls, nops>>

read_fragment_file ==
  /\ pc = "file_contents_fragment"
  /\ \E state \in FileStates, text \in Sources :
       LET r == file_contents(frame.fragment_path, state, text) IN
       /\ reads' = Append(reads, [path |-> frame.fragment_path, state |-> state])
       /\ IF r.kind = "Ok"
          THEN Goto("CreateShader",
                    [frame EXCEPT !.fragment_source = r.msg[1],
                                  !.shader_type = VERTEX_SHADER])
          ELSE Return(frame, r)
  /\ UNCHANGED <<glVars, result, shaders, uniforms, op, calls, nops>>

(***************************************************************************)
(* Shader::new_from_source: VertexShader::compile, FragmentShader::compile,*)
(* Program::link, each a run of the steps below.                           *)
(***************************************************************************)
new_from_source ==
  \E vertex_source \in Sources, fragment_source \in Sources :
    /\ Begin(TopCall("new_from_source", 0, vertex_source, fragment_source, 0, 0))
    /\ calls' = <<>>
    /\ result' = NoResult
    /\ Goto("CreateShader",
            [EmptyFrame EXCEPT !.vertex_source = vertex_source,
                               !.fragment_source = fragment_source,
                               !.shader_type = VERTEX_SHADER])
    /\ UNCHANGED <<glVars, shaders, uniforms>>

(***************************************************************************)
(* compile_any(shader_type, source), lines 127-145, with                   *)
(* compilation_succeeded and get_compilation_log.                          *)
(***************************************************************************)
SourceOf(f) ==
  IF f.shader_type = VERTEX_SHADER THEN f.vertex_source ELSE f.fragment_source

\* Ok(id) mapped into the stage's wrapper (lines 73-74, 85-86); control goes
\* on in new_from_source (lines 29-31).
Compiled(f) ==
  IF f.shader_type = VERTEX_SHADER
  THEN Goto("CreateShader",
            [f EXCEPT !.vertex = <<f.id>>, !.shader_type = FRAGMENT_SHADER])
  ELSE Goto("CreateProgram", [f EXCEPT !.fragment = <<f.id>>])

CompileFailedMessage(shader_type, log) ==
  IF shader_type = VERTEX_SHADER
  THEN <<"Vertex shader compilation failed:\n">> \o log
  ELSE <<"Fragment shader compilation failed:\n">> \o log

\* line 128-129: let id = check_gl!(gl::CreateShader(shader_type)); assert!(id != 0)
compile_any_CreateShader ==
  /\ pc = "CreateShader"
  /\ \E r \in {<<glNext, FALSE>>, <<0, FALSE>>, <<0, TRUE>>} :
       LET id == r[1]
           err == Flag(r[2])
       IN
       /\ Issue(check_gl(Call("CreateShader", 0, frame.shader_type, <<>>, id), err))
       /\ glShaders' = IF id # 0
                       THEN Put(glShaders, id, NewShaderObject(frame.shader_type))
                       ELSE glShaders
       /\ glNext' = IF id # 0 THEN glNext + 1 ELSE glNext
       /\ glError' = 0
       /\ IF err # 0 \/ id = 0
          THEN Unwind(frame)
          ELSE Goto("ShaderSource", [frame EXCEPT !.id = id])
  /\ UNCHANGED <<glPrograms, glCurrent, glWritten>>

\* lines 130-132: gl::ShaderSource(id, 1, &c_str, null)
compile_any_ShaderSource ==
  /\ pc = "ShaderSource"
  /\ \E fault \in BOOLEAN :
       LET bad == fault \/ ~IsShader(frame.id)
           err == Flag(bad)
       IN
       /\ Issue(check_gl(Call("ShaderSource", frame.id, 1, <<SourceOf(frame)>>, 0), err))
       /\ glShaders' = IF bad THEN glShaders
                       ELSE [glShaders EXCEPT ![frame.id].source = SourceOf(frame)]
       /\ glError' = 0
       /\ IF err # 0 THEN Unwind(frame) ELSE Goto("CompileShader", frame)
  /\ UNCHANGED <<glPrograms, glNext, glCurrent, glWritten>>

\* line 133: gl::CompileShader(id); the driver decides the status and the log.
compile_any_CompileShader ==
  /\ pc = "CompileShader"
  /\ \E fault \in BOOLEAN, status \in {0, 1}, log \in InfoLogs :
       LET bad == fault \/ ~IsShader(frame.id)
           err == Flag(bad)
       IN
       /\ status = 1 => log = <<>>
       /\ bad => (status = 0 /\ log = <<>>)
       /\ Issue(check_gl(Call("CompileShader", frame.id, 0, <<>>, 0), err))
       /\ glShaders' = IF bad THEN glShaders
                       ELSE [glShaders EXCEPT ![frame.id].status = status,
                                              ![frame.id].log = log]
       /\ glError' = 0
       /\ IF err # 0 THEN Unwind(frame) ELSE Goto("compilation_succeeded", frame)
  /\ UNCHANGED <<glPrograms, glNext, glCurrent, glWritten>>

\* lines 134, 148-152: GetShaderiv(id, COMPILE_STATUS, &mut result); result != 0
compilation_succeeded ==
  /\ pc = "compilation_succeeded"
  /\ LET bad == ~IsShader(frame.id)
         err == Flag(bad)
         status == IF bad THEN 0 ELSE glShaders[frame.id].status
     IN
     /\ Issue(check_gl(Call("GetShaderiv", frame.id, 0, <<"COMPILE_STATUS">>, status), err))
     /\ glError' = 0
     /\ IF err # 0 THEN Unwind(frame)
        ELSE IF status # 0 THEN Compiled(frame)
        ELSE Goto("get_compilation_log", frame)
  /\ UNCHANGED <<glShaders, glPrograms, glNext, glCurrent, glWritten>>

\* lines 156-159: GetShaderiv(id, INFO_LOG_LENGTH, &mut log_length);
\* assert!(log_length > 0)
get_compilation_log ==
  /\ pc = "get_compilation_log"
  /\ LET bad == ~IsShader(frame.id)
         err == Flag(bad)
         log_length == IF bad THEN 0 ELSE Len(glShaders[frame.id].log)
     IN
     /\ Issue(check_gl(Call("GetShaderiv", frame.id, 0, <<"INFO_LOG_LENGTH">>, log_length), err))
     /\ glError' = 0
     /\ IF err # 0 \/ ~(log_length > 0) THEN Unwind(frame)
        ELSE Goto("GetShaderInfoLog", [frame EXCEPT !.log_length = log_length])
  /\ UNCHANGED <<glShaders, glPrograms, glNext, glCurrent, glWritten>>

\* lines 160-164: GetShaderInfoLog into a buffer of log_length bytes;
\* String::from_utf8(log_buffer).unwrap()
get_compilation_log_text ==
  /\ pc = "GetShaderInfoLog"
  /\ LET bad == ~IsShader(frame.id)
         err == Flag(bad)
         log_buffer == IF bad THEN [i \in 1..frame.log_length |-> "NUL"]
                       ELSE SubSeq(glShaders[frame.id].log, 1, frame.log_length)
     IN
     /\ Issue(check_gl(Call("GetShaderInfoLog", frame.id, frame.log_length, log_buffer, 0), err))
     /\ glError' = 0
     /\ IF err # 0 \/ ~IsUtf8(log_buffer) THEN Unwind(frame)
        ELSE Goto("DeleteShader", [frame EXCEPT !.log = log_buffer])
  /\ UNCHANGED <<glShaders, glPrograms, glNext, glCurrent, glWritten>>

\* compile_any_DeleteShader whose failure is not returned: the stage's
\* wrapper is built as if the compile had succeeded.
compile_any_DeleteShader_NotReturned ==
  /\ pc = "DeleteShader"
  /\ Issue(check_gl(Call("DeleteShader", frame.id, 0, <<>>, 0), 0))
  /\ glShaders' = Remove(glShaders, frame.id)
  /\ glError' = 0
  /\ Compiled(frame)
  /\ UNCHANGED <<glPrograms, glNext, glCurrent, glWritten>>

\* compile_any_DeleteShader in a compile_any that wraps the new handle in its
\* owning type before the status is known: the failure path deletes the
\* handle and the wrapper still owns it.
compile_any_DeleteShader_StillOwned ==
  /\ pc = "DeleteShader"
  /\ Issue(check_gl(Call("DeleteShader", frame.id, 0, <<>>, 0), 0))
  /\ glShaders' = Remove(glShaders, frame.id)
  /\ glError' = 0
  /\ Return(IF frame.shader_type = VERTEX_SHADER
            THEN [frame EXCEPT !.vertex = <<frame.id>>]
            ELSE [frame EXCEPT !.fragment = <<frame.id>>],
            Err(CompileFailedMessage(frame.shader_type, frame.log)))
  /\ UNCHANGED <<glPrograms, glNext, glCurrent, glWritten>>

\* lines 138-143: check_gl!(gl::DeleteShader(id)); Err(format!(...)); the
\* try! of new_from_source returns it (lines 29-30).
compile_any_DeleteShader ==
  /\ pc = "DeleteShader"
  /\ LET bad == frame.id # 0 /\ ~IsShader(frame.id)
         err == Flag(bad)
     IN
     /\ Issue(check_gl(Call("DeleteShader", frame.id, 0, <<>>, 0), err))
     /\ glShaders' = IF IsShader(frame.id) THEN Remove(glShaders, frame.id)
                     ELSE glShaders
     /\ glError' = 0
     /\ IF err # 0 THEN Unwind(frame)
        ELSE Return(frame, Err(CompileFailedMessage(frame.shader_type, frame.log)))
  /\ UNCHANGED <<glPrograms, glNext, glCurrent, glWritten>>

(***************************************************************************)
(* Program::link(vertex, fragment), lines 96-108, with link_succeeded and  *)
(* get_link_log.                                                           *)
(***************************************************************************)
LinkFailedMessage(log) == <<"Shader linking failed:\n">> \o log

\* line 98: let program = Program{ id: check_gl!(gl::CreateProgram()) }
link_CreateProgram ==
  /\ pc = "CreateProgram"
  /\ \E r \in {<<glNext, FALSE>>, <<0, FALSE>>, <<0, TRUE>>} :
       LET id == r[1]
           err == Flag(r[2])
       IN
       /\ Issue(check_gl(Call("CreateProgram", 0, 0, <<>>, id), err))
       /\ glPrograms' = IF id # 0 THEN Put(glPrograms, id, NewProgramObject)
                        ELSE glPrograms
       /\ glNext' = IF id # 0 THEN glNext + 1 ELSE glNext
       /\ glError' = 0
       /\ IF err # 0 THEN Unwind(frame)
          ELSE Goto("AttachVertex", [frame EXCEPT !.program = <<id>>])
  /\ UNCHANGED <<glShaders, glCurrent, glWritten>>

AttachShader(shader, next) ==
  \E fault \in BOOLEAN :
    LET program == frame.program[1]
        bad == \/ fault
               \/ ~IsProgram(program)
               \/ ~IsShader(shader)
               \/ (IsProgram(program) /\ shader \in glPrograms[program].attached)
        err == Flag(bad)
    IN
    /\ Issue(check_gl(Call("AttachShader", program, shader, <<>>, 0), err))
    /\ glPrograms' =
         IF bad THEN glPrograms
         ELSE [glPrograms EXCEPT ![program].attached = @ \cup {shader}]
    /\ glError' = 0
    /\ IF err # 0 THEN Unwind(frame) ELSE Goto(next, frame)
    /\ UNCHANGED <<glShaders, glNext, glCurrent, glWritten>>

\* line 99: check_gl!(gl::AttachShader(program.id, vertex.id))
link_AttachVertex ==
  /\ pc = "AttachVertex"
  /\ AttachShader(frame.vertex[1], "AttachFragment")

\* line 100: check_gl!(gl::AttachShader(program.id, fragment.id))
link_AttachFragment ==
  /\ pc = "AttachFragment"
  /\ AttachShader(frame.fragment[1], "LinkProgram")

\* link_LinkProgram returning the program without the link-status query.
link_LinkProgram_NoStatusQuery ==
  /\ pc = "LinkProgram"
  /\ \E fault \in BOOLEAN, status \in {0, 1}, log \in InfoLogs :
       LET program == frame.program[1]
           bad == fault \/ ~IsProgram(program)
           err == Flag(bad)
       IN
       /\ status = 1 => log = <<>>
       /\ bad => (status = 0 /\ log = <<>>)
       /\ Issue(check_gl(Call("LinkProgram", program, 0, <<>>, 0), err))
       /\ glPrograms' = IF bad THEN glPrograms
                        ELSE [glPrograms EXCEPT ![program].status = status,
                                                ![program].log = log]
       /\ glError' = 0
       /\ IF err # 0 THEN Unwind(frame)
          ELSE Return([frame EXCEPT !.program = <<>>], Ok(program))
  /\ UNCHANGED <<glShaders, glNext, glCurrent, glWritten>>

\* line 101: check_gl!(gl::LinkProgram(program.id)); the driver decides the
\* status and the log.
link_LinkProgram ==
  /\ pc = "LinkProgram"
  /\ \E fault \in BOOLEAN, status \in {0, 1}, log \in InfoLogs :
       LET program == frame.program[1]
           bad == fault \/ ~IsProgram(program)
           err == Flag(bad)
       IN
       /\ status = 1 => log = <<>>
       /\ bad => (status = 0 /\ log = <<>>)
       /\ Issue(check_gl(Call("LinkProgram", program, 0, <<>>, 0), err))
       /\ glPrograms' = IF bad THEN glPrograms
                        ELSE [glPrograms EXCEPT ![program].status = status,
                                                ![program].log = log]
       /\ glError' = 0
       /\ IF err # 0 THEN Unwind(frame) ELSE Goto("link_succeeded", frame)
  /\ UNCHANGED <<glShaders, glNext, glCurrent, glWritten>>

\* link_succeeded with the status it reads ignored.
link_succeeded_StatusIgnored ==
  /\ pc = "link_succeeded"
  /\ LET program == frame.program[1]
         status == glPrograms[program].status
     IN
     /\ Issue(check_gl(Call("GetProgramiv", program, 0, <<"LINK_STATUS">>, status), 0))
     /\ glError' = 0
     /\ Return([frame EXCEPT !.program = <<>>], Ok(program))
  /\ UNCHANGED <<glShaders, glPrograms, glNext, glCurrent, glWritten>>

\* lines 102-103, 168-172: GetProgramiv(id, LINK_STATUS, &mut result);
\* Ok(program) moves the program out; vertex and fragment go out of scope.
link_succeeded ==
  /\ pc = "link_succeeded"
  /\ LET program == frame.program[1]
         bad == ~IsProgram(program)
         err == Flag(bad)
         status == IF bad THEN 0 ELSE glPrograms[program].status
     IN
     /\ Issue(check_gl(Call("GetProgramiv", program, 0, <<"LINK_STATUS">>, status), err))
     /\ glError' = 0
     /\ IF err # 0 THEN Unwind(frame)
        ELSE IF status # 0
        THEN Return([frame EXCEPT !.program = <<>>], Ok(program))
        ELSE Goto("get_link_log", frame)
  /\ UNCHANGED <<glShaders, glPrograms, glNext, glCurrent, glWritten>>

\* get_link_log whose assertion also refuses a log that holds text.
get_link_log_AssertEmpty ==
  /\ pc = "get_link_log"
  /\ LET program == frame.program[1]
         log_length == Len(glPrograms[program].log)
     IN
     /\ Issue(check_gl(Call("GetProgramiv", program, 0, <<"INFO_LOG_LENGTH">>, log_length), 0))
     /\ glError' = 0
     /\ Unwind(frame)
  /\ UNCHANGED <<glShaders, glPrograms, glNext, glCurrent, glWritten>>

\* lines 176-179: GetProgramiv(id, INFO_LOG_LENGTH, &mut log_length);
\* assert!(log_length > 0)
get_link_log ==
  /\ pc = "get_link_log"
  /\ LET program == frame.program[1]
         bad == ~IsProgram(program)
         err == Flag(bad)
         log_length == IF bad THEN 0 ELSE Len(glPrograms[program].log)
     IN
     /\ Issue(check_gl(Call("GetProgramiv", program, 0, <<"INFO_LOG_LENGTH">>, log_length), err))
     /\ glError' = 0
     /\ IF err # 0 \/ ~(log_length > 0) THEN Unwind(frame)
        ELSE Goto("GetProgramInfoLog", [frame EXCEPT !.log_length = log_length])
  /\ UNCHANGED <<glShaders, glPrograms, glNext, glCurrent, glWritten>>

\* lines 180-184, 105-106: GetProgramInfoLog; from_utf8(...).unwrap();
\* Err(format!("Shader linking failed:\n{}", log)); program, fragment and
\* vertex go out of scope.
get_link_log_text ==
  /\ pc = "GetProgramInfoLog"
  /\ LET program == frame.program[1]
         bad == ~IsProgram(program)
         err == Flag(bad)
         log_buffer == IF bad THEN [i \in 1..frame.log_length |-> "NUL"]
                       ELSE SubSeq(glPrograms[program].log, 1, frame.log_length)
     IN
     /\ Issue(check_gl(Call("GetProgramInfoLog", program, frame.log_length, log_buffer, 0), err))
     /\ glError' = 0
     /\ IF err # 0 \/ ~IsUtf8(log_buffer) THEN Unwind(frame)
        ELSE Return(frame, Err(LinkFailedMessage(log_buffer)))
  /\ UNCHANGED <<glShaders, glPrograms, glNext, glCurrent, glWritten>>

(***************************************************************************)
(* Drop glue: the values in `drops` go out of scope one by one.            *)
(***************************************************************************)
\* A Drop whose check_gl! finds an error panics: while unwinding that aborts
\* the process, otherwise unwinding starts and the remaining values are
\* still dropped.
AfterDrop(err) ==
  IF err # 0
  THEN IF panicking
       THEN /\ pc' = "halted" /\ drops' = <<>>
            /\ UNCHANGED <<panicking, frame>>
       ELSE /\ panicking' = TRUE /\ drops' = Tail(drops)
            /\ frame' = EmptyFrame /\ UNCHANGED pc
  ELSE /\ drops' = Tail(drops)
       /\ UNCHANGED <<pc, panicking, frame>>

DropShaderHandle(kind) ==
  /\ pc = "cleanup"
  /\ drops # <<>>
  /\ Head(drops).kind = kind
  /\ LET id == Head(drops).id
         bad == id # 0 /\ ~IsShader(id)
         err == Flag(bad)
     IN
     /\ Issue(check_gl(Call("DeleteShader", id, 0, <<>>, 0), err))
     /\ glShaders' = IF IsShader(id) THEN Remove(glShaders, id) ELSE glShaders
     /\ glError' = 0
     /\ AfterDrop(err)
  /\ UNCHANGED <<glPrograms, glNext, glCurrent, glWritten>>

\* lines 77-79: fn drop(&mut self) { check_gl!(gl::DeleteShader(self.id)); }
drop_VertexShader ==
  /\ drops # <<>>
  /\ DropShaderHandle("VertexShader")

\* lines 89-91
drop_FragmentShader ==
  /\ drops # <<>>
  /\ DropShaderHandle("FragmentShader")

\* lines 110-112: fn drop(&mut self) { gl::DeleteProgram(self.id); }
DeleteProgram(id) ==
  /\ glPrograms' = IF IsProgram(id) THEN Remove(glPrograms, id) ELSE glPrograms
  /\ glError' = Flag(id # 0 /\ ~IsProgram(id))
  /\ UNCHANGED <<glShaders, glNext, glCurrent, glWritten>>

drop_Program ==
  /\ pc = "cleanup"
  /\ drops # <<>>
  /\ Head(drops).kind = "Program"
  /\ Issue(unchecked(Call("DeleteProgram", Head(drops).id, 0, <<>>, 0)))
  /\ DeleteProgram(Head(drops).id)
  /\ AfterDrop(0)

\* line 32 / the try! returns: the caller receives Ok(Shader{program}) or Err.
return_to_caller ==
  /\ pc = "cleanup"
  /\ drops = <<>>
  /\ ~panicking
  /\ pc' = "idle"
  /\ result' = frame.ret
  /\ shaders' = IF frame.ret.kind = "Ok" THEN shaders \cup {frame.ret.val}
                ELSE shaders
  /\ frame' = EmptyFrame
  /\ UNCHANGED <<glVars, drops, panicking, uniforms, op, calls, reads, nops>>

\* unwinding is over: the process has ended.
task_failed ==
  /\ pc = "cleanup"
  /\ drops = <<>>
  /\ panicking
  /\ pc' = "halted"
  /\ UNCHANGED <<glVars, frame, drops, panicking, result, shaders, uniforms,
                 op, calls, reads, nops>>

(***************************************************************************)
(* The facade's methods on a Shader the caller holds, lines 35-67, and the *)
(* caller letting a Shader go out of scope.  Each is one driver call.      *)
(***************************************************************************)
\* The method's one wrapped call has been made: a bridge fault panics in
\* the caller, otherwise r is returned.
Done(newCalls, err, r) ==
  /\ calls' = newCalls
  /\ IF err # 0
     THEN /\ pc' = "halted" /\ panicking' = TRUE /\ result' = NoResult
     ELSE /\ pc' = "idle" /\ result' = r /\ UNCHANGED panicking
  /\ UNCHANGED <<frame, drops>>

\* gl::UseProgram(program): 0 unbinds; any other name must be a linked
\* program.
UseProgram(program) ==
  LET bad == program # 0 /\ ~IsLinked(program)
      err == Flag(bad)
  IN
  /\ glCurrent' = IF bad THEN glCurrent ELSE program
  /\ glError' = 0
  /\ Done(check_gl(Call("UseProgram", program, 0, <<>>, 0), err), err, Unit)
  /\ UNCHANGED <<glShaders, glPrograms, glNext, glWritten, shaders, uniforms>>

\* bind that passes 0 in place of self.program.id.
bind_NoProgram ==
  \E self \in shaders :
    /\ Begin(TopCall("bind", self, "", "", 0, 0))
    /\ UseProgram(0)

\* lines 35-37: check_gl!(gl::UseProgram(self.program.id))
bind ==
  \E self \in shaders :
    /\ Begin(TopCall("bind", self, "", "", 0, 0))
    /\ UseProgram(self)

\* lines 39-41: check_gl!(gl::UseProgram(0))
unbind ==
  \E self \in shaders :
    /\ Begin(TopCall("unbind", self, "", "", 0, 0))
    /\ UseProgram(0)

\* UniformOption without the -1 arm.
UniformOption_Sentinel(id) == Some(id)

\* lines 47-48: -1 => None, id => Some(Uniform{id: id})
UniformOption(id) == IF id = -1 THEN None ELSE Some(id)

\* lines 43-50: GetUniformLocation(self.program.id, name); the driver answers
\* -1 for a name that is no active uniform of the program.
get_uniform ==
  \E self \in shaders, name \in Names, answer \in {-1} \cup Locations :
    LET bad == ~IsLinked(self)
        err == Flag(bad)
        id == IF bad THEN -1 ELSE answer
        r == UniformOption(id)
    IN
    /\ Begin(TopCall("get_uniform", self, name, "", 0, 0))
    /\ glError' = 0
    /\ Done(check_gl(Call("GetUniformLocation", self, 0, <<name>>, id), err), err, r)
    /\ uniforms' = IF err = 0 /\ r.kind = "Some" THEN uniforms \cup {r.val}
                   ELSE uniforms
    /\ UNCHANGED <<glShaders, glPrograms, glNext, glCurrent, glWritten, shaders>>

\* gl::Uniform*(location, ...): writes into the active program; an error if
\* there is none, or if the driver rejects the location or the type for it.
UniformCall(fn, location, value, reject) ==
  LET bad == reject \/ ~IsLinked(glCurrent)
      err == Flag(bad)
  IN
  /\ glWritten' = IF bad \/ location = -1 THEN glWritten
                  ELSE [program |-> glCurrent, fn |-> fn,
                        location |-> location, value |-> value]
  /\ glError' = 0
  /\ Done(check_gl(Call(fn, location, value, <<>>, 0), err), err, Unit)
  /\ UNCHANGED <<glShaders, glPrograms, glNext, glCurrent, shaders, uniforms>>

\* set_uniform_i32 that binds its own program before the write.
set_uniform_i32_BindsSelf ==
  \E self \in shaders, uniform \in uniforms, value \in Values, reject \in BOOLEAN :
    LET bad == reject \/ ~IsLinked(self)
        err == Flag(bad)
    IN
    /\ Begin(TopCall("set_uniform_i32", self, "", "", uniform, value))
    /\ glCurrent' = IF IsLinked(self) THEN self ELSE glCurrent
    /\ glWritten' = IF bad \/ uniform = -1 THEN glWritten
                    ELSE [program |-> self, fn |-> "Uniform1i",
                          location |-> uniform, value |-> value]
    /\ glError' = 0
    /\ Done(check_gl(Call("UseProgram", self, 0, <<>>, 0), 0)
              \o check_gl(Call("Uniform1i", uniform, value, <<>>, 0), err),
            err, Unit)
    /\ UNCHANGED <<glShaders, glPrograms, glNext, shaders, uniforms>>

\* lines 52-54: check_gl!(gl::Uniform1i(uniform.id, value))
set_uniform_i32 ==
  \E self \in shaders, uniform \in uniforms, value \in Values, reject \in BOOLEAN :
    /\ Begin(TopCall("set_uniform_i32", self, "", "", uniform, value))
    /\ UniformCall("Uniform1i", uniform, value, reject)

\* set_uniform_f32 calling the integer entry point.
set_uniform_f32_AsInt ==
  \E self \in shaders, uniform \in uniforms, value \in Values, reject \in BOOLEAN :
    /\ Begin(TopCall("set_uniform_f32", self, "", "", uniform, value))
    /\ UniformCall("Uniform1i", uniform, value, reject)

\* lines 56-58: check_gl!(gl::Uniform1f(uniform.id, value))
set_uniform_f32 ==
  \E self \in shaders, uniform \in uniforms, value \in Values, reject \in BOOLEAN :
    /\ Begin(TopCall("set_uniform_f32", self, "", "", uniform, value))
    /\ UniformCall("Uniform1f", uniform, value, reject)

\* lines 60-62: gl::Uniform3fv(uniform.id, 1, &value.x)
set_uniform_vec3f ==
  \E self \in shaders, uniform \in uniforms, value \in Values, reject \in BOOLEAN :
    /\ Begin(TopCall("set_uniform_vec3f", self, "", "", uniform, value))
    /\ UniformCall("Uniform3fv", uniform, value, reject)

\* lines 64-67: gl::UniformMatrix4fv(uniform.id, 1, 0u8, value.as_scalar_ptr())
set_uniform_mat4 ==
  \E self \in shaders, uniform \in uniforms, value \in Values, reject \in BOOLEAN :
    /\ Begin(TopCall("set_uniform_mat4", self, "", "", uniform, value))
    /\ UniformCall("UniformMatrix4fv", uniform, value, reject)

\* drop_Shader with no Drop run for the Program inside.
drop_Shader_ProgramNotDropped ==
  \E self \in shaders :
    /\ Begin(TopCall("drop", self, "", "", 0, 0))
    /\ calls' = <<>>
    /\ shaders' = shaders \ {self}
    /\ result' = Unit
    /\ UNCHANGED <<glVars, pc, frame, drops, panicking, uniforms>>

\* drop_Shader that unbinds before it deletes the program.
drop_Shader_Unbinds ==
  \E self \in shaders :
    /\ Begin(TopCall("drop", self, "", "", 0, 0))
    /\ calls' = check_gl(Call("UseProgram", 0, 0, <<>>, 0), 0)
                  \o unchecked(Call("DeleteProgram", self, 0, <<>>, 0))
    /\ glCurrent' = 0
    /\ glPrograms' = IF IsProgram(self) THEN Remove(glPrograms, self) ELSE glPrograms
    /\ glError' = 0
    /\ shaders' = shaders \ {self}
    /\ result' = Unit
    /\ UNCHANGED <<glShaders, glNext, glWritten, pc, frame, drops, panicking, uniforms>>

\* lines 12-14, 110-112: a Shader dropped by its owner drops its Program.
drop_Shader ==
  \E self \in shaders :
    /\ Begin(TopCall("drop", self, "", "", 0, 0))
    /\ calls' = unchecked(Call("DeleteProgram", self, 0, <<>>, 0))
    /\ DeleteProgram(self)
    /\ shaders' = shaders \ {self}
    /\ result' = Unit
    /\ UNCHANGED <<pc, frame, drops, panicking, uniforms>>

Next ==
  \/ new_from_files
  \/ read_vertex_file
  \/ read_fragment_file
  \/ new_from_source
  \/ compile_any_CreateShader
  \/ compile_any_ShaderSource
  \/ compile_any_CompileShader
  \/ compilation_succeeded
  \/ get_compilation_log
  \/ get_compilation_log_text
  \/ compile_any_DeleteShader
  \/ link_CreateProgram
  \/ link_AttachVertex
  \/ link_AttachFragment
  \/ link_LinkProgram
  \/ link_succeeded
  \/ get_link_log
  \/ get_link_log_text
  \/ drop_VertexShader
  \/ drop_FragmentShader
  \/ drop_Program
  \/ return_to_caller
  \/ task_failed
  \/ bind
  \/ unbind
  \/ get_uniform
  \/ set_uniform_i32
  \/ set_uniform_f32
  \/ set_uniform_vec3f
  \/ set_uniform_mat4
  \/ drop_Shader

Spec == Init /\ [][Next]_vars

(***************************************************************************)
(* Reading the call capture of the operation in progress / last finished.  *)
(***************************************************************************)
Constructors == {"new_from_source", "new_from_files"}

\* the constructor has returned to its caller
ConstructorReturned == pc = "idle" /\ op.name \in Constructors

Indices(fn) == {i \in DOMAIN calls : calls[i].fn = fn}

\* names the driver handed out to this operation
CreatedShaders(type) ==
  {calls[i].ret : i \in {j \in Indices("CreateShader") :
                           calls[j].arg = type /\ calls[j].ret # 0}}
CreatedPrograms ==
  {calls[i].ret : i \in {j \in Indices("CreateProgram") : calls[j].ret # 0}}
Created ==
  CreatedShaders(VERTEX_SHADER) \cup CreatedShaders(FRAGMENT_SHADER)
    \cup CreatedPrograms

\* names this operation passed to a delete call
DeleteCalled ==
  {calls[i].obj : i \in Indices("DeleteShader") \cup Indices("DeleteProgram")}

Live == (DOMAIN glShaders) \cup (DOMAIN glPrograms)

\* the statuses the driver reported to this operation
CompileStatus(type) ==
  {calls[i].ret : i \in {j \in Indices("GetShaderiv") :
                           /\ calls[j].txt = <<"COMPILE_STATUS">>
                           /\ calls[j].obj \in CreatedShaders(type)}}
LinkStatus ==
  {calls[i].ret : i \in {j \in Indices("GetProgramiv") :
                           calls[j].txt = <<"LINK_STATUS">>}}

\* the info-log lengths and texts the driver reported to this operation
LogLengths ==
  {calls[i].ret : i \in {j \in Indices("GetShaderiv") \cup Indices("GetProgramiv") :
                           calls[j].txt = <<"INFO_LOG_LENGTH">>}}
LogTexts(fn) == {calls[i].txt : i \in Indices(fn)}

\* the error codes the bridge's queries returned to this operation
ErrorCodes == {calls[i].ret : i \in Indices("GetError")}

Count(fn) == Cardinality(Indices(fn))

LinkFailureReturned ==
  /\ ConstructorReturned
  /\ CompileStatus(VERTEX_SHADER) = {1}
  /\ CompileStatus(FRAGMENT_SHADER) = {1}
  /\ LinkStatus = {0}

(***************************************************************************)
(* C1.  When both stages compile and the link status is failure,           *)
(* new_from_source returns a failure whose message contains "Shader        *)
(* linking failed" and the driver's link log, and at that return the       *)
(* program handle and the two shader handles it created have all been      *)
(* deleted.                                                                *)
(***************************************************************************)
C1_LinkFailureReported ==
  LinkFailureReturned =>
    /\ result.kind = "Err"
    /\ IsInfix(<<"Shader linking failed:\n">>, result.msg)
    /\ LogTexts("GetProgramInfoLog") # {}
    /\ \A log \in LogTexts("GetProgramInfoLog") :
         log # <<>> /\ IsInfix(log, result.msg)
    /\ Cardinality(Created) = 3
    /\ Cardinality(CreatedPrograms) = 1
    /\ Created \subseteq DeleteCalled
    /\ Created \cap Live = {}
    /\ Count("CreateShader") + Count("CreateProgram")
         - (Count("DeleteShader") + Count("DeleteProgram")) = 0

C1_Witness ==
  /\ LinkFailureReturned
  /\ result.msg = <<"Shader linking failed:\n", "E", "NUL">>
  /\ Live = {}

(***************************************************************************)
(* C2.  Round trip: after a successful construction, any calls of the      *)
(* facade's methods and the destruction of the Shader, every handle the    *)
(* driver created has been deleted: the two shader handles at the end of   *)
(* construction, the program handle by the destruction (one delete call    *)
(* for that handle), so that no handle is live once no Shader is held.     *)
(***************************************************************************)
C2_RoundTripBalanced ==
  /\ pc = "idle" =>
       /\ DOMAIN glShaders = {}
       /\ DOMAIN glPrograms = shaders
  /\ (ConstructorReturned /\ result.kind = "Ok") =>
       /\ Cardinality(CreatedShaders(VERTEX_SHADER)) = 1
       /\ Cardinality(CreatedShaders(FRAGMENT_SHADER)) = 1
       /\ CreatedPrograms = {result.val}
       /\ DeleteCalled = CreatedShaders(VERTEX_SHADER)
                           \cup CreatedShaders(FRAGMENT_SHADER)
       /\ Count("DeleteShader") = 2
  /\ (pc = "idle" /\ op.name = "drop") =>
       /\ calls = <<Call("DeleteProgram", op.self, 0, <<>>, 0)>>
       /\ op.self \notin Live
       /\ op.self \in 1..(glNext - 1)
       /\ (shaders = {} => Live = {})

C2_Witness ==
  /\ pc = "idle"
  /\ op.name = "drop"
  /\ shaders = {}
  /\ Live = {}
  /\ glNext = 4
  /\ glCurrent = op.self
  /\ uniforms # {}

VertexFailed ==
  /\ op.name \in Constructors
  /\ CompileStatus(VERTEX_SHADER) = {0}

(***************************************************************************)
(* C3.  When the vertex stage's compile status is failure, no driver call  *)
(* for the fragment stage and no create-program call is issued in that     *)
(* invocation; new_from_source returns a failure whose message contains    *)
(* "Vertex shader compilation failed" and the driver's compile log, and    *)
(* the failed vertex handle has been deleted when it returns.              *)
(***************************************************************************)
C3_VertexFailureShortCircuits ==
  VertexFailed =>
    /\ CreatedShaders(FRAGMENT_SHADER) = {}
    /\ \A i \in Indices("CreateShader") : calls[i].arg = VERTEX_SHADER
    /\ Count("CreateShader") = 1
    /\ Count("ShaderSource") = 1
    /\ Count("CompileShader") = 1
    /\ \A i \in Indices("ShaderSource") \cup Indices("CompileShader") :
         calls[i].obj \in CreatedShaders(VERTEX_SHADER)
    /\ Count("CreateProgram") = 0
    /\ pc = "idle" =>
         /\ result.kind = "Err"
         /\ IsInfix(<<"Vertex shader compilation failed:\n">>, result.msg)
         /\ LogTexts("GetShaderInfoLog") # {}
         /\ \A log \in LogTexts("GetShaderInfoLog") :
              log # <<>> /\ IsInfix(log, result.msg)
         /\ CreatedShaders(VERTEX_SHADER) \subseteq DeleteCalled
         /\ Live \cap Created = {}

C3_Witness ==
  /\ VertexFailed
  /\ pc = "idle"
  /\ result.msg = <<"Vertex shader compilation failed:\n", "E", "NUL">>
  /\ Count("DeleteShader") = 1

FragmentFailureReturned ==
  /\ ConstructorReturned
  /\ CompileStatus(VERTEX_SHADER) = {1}
  /\ CompileStatus(FRAGMENT_SHADER) = {0}

(***************************************************************************)
(* C4.  When the vertex stage compiles and the fragment stage's compile    *)
(* status is failure, new_from_source returns a failure whose message      *)
(* contains "Fragment shader compilation failed", no program handle is     *)
(* created, and at return the failed fragment handle and the compiled      *)
(* vertex unit's handle have both been deleted.                            *)
(***************************************************************************)
C4_FragmentFailureReleasesVertex ==
  FragmentFailureReturned =>
    /\ result.kind = "Err"
    /\ IsInfix(<<"Fragment shader compilation failed:\n">>, result.msg)
    /\ ~IsInfix(<<"Vertex shader compilation failed:\n">>, result.msg)
    /\ Count("CreateProgram") = 0
    /\ Cardinality(CreatedShaders(VERTEX_SHADER)) = 1
    /\ Cardinality(CreatedShaders(FRAGMENT_SHADER)) = 1
    /\ Created \subseteq DeleteCalled
    /\ Count("DeleteShader") = 2
    /\ Created \cap Live = {}

C4_Witness ==
  /\ FragmentFailureReturned
  /\ result.msg = <<"Fragment shader compilation failed:\n", "E", "NUL">>
  /\ Created \cap Live = {}
  /\ Cardinality(Created) = 2

AllSucceeded ==
  /\ CompileStatus(VERTEX_SHADER) = {1}
  /\ CompileStatus(FRAGMENT_SHADER) = {1}
  /\ LinkStatus = {1}

(***************************************************************************)
(* C5.  Construction is all-or-nothing: new_from_source returns a Shader   *)
(* exactly when the vertex compile status, the fragment compile status and *)
(* the link status are all success; every Shader a caller holds has a      *)
(* program handle that is live and linked; a failure return leaves no      *)
(* Shader behind.                                                          *)
(***************************************************************************)
C5_AllOrNothing ==
  /\ \A s \in shaders : IsLinked(s)
  /\ ConstructorReturned =>
       /\ result.kind \in {"Ok", "Err"}
       /\ result.kind = "Ok" <=> AllSucceeded
       /\ result.kind = "Ok" =>
            /\ result.val \in shaders
            /\ CreatedPrograms = {result.val}
       /\ result.kind = "Err" => Created \cap shaders = {}

C5_Witness ==
  /\ ConstructorReturned
  /\ result.kind = "Ok"
  /\ AllSucceeded
  /\ result.val \in shaders
  /\ IsLinked(result.val)

FailureStatusSeen ==
  /\ op.name \in Constructors
  /\ 0 \in (CompileStatus(VERTEX_SHADER) \cup CompileStatus(FRAGMENT_SHADER)
              \cup LinkStatus)

ErrorFlagClear == ErrorCodes \subseteq {0}

Recovered ==
  /\ ~panicking
  /\ pc # "halted"
  /\ pc = "idle" => result.kind = "Err"

\* what the driver reported of the failure's info log, as far as it was asked
LogReadable ==
  /\ \A n \in LogLengths : n > 0
  /\ \A log \in LogTexts("GetShaderInfoLog") \cup LogTexts("GetProgramInfoLog") :
       IsUtf8(log)

\* C6, as claimed: for every driver response in which a compile status or
\* the link status is failure and the driver's error flag is clear, whatever
\* info-log length the driver reports, new_from_source returns a failure
\* value and the process is never halted.
C6_RecoverableWhateverLog ==
  (FailureStatusSeen /\ ErrorFlagClear) => Recovered

\* C6, as amended: for every driver response in which a compile status or
\* the link status is failure, the driver's error flag is clear, and the
\* info log the driver reports for the failure has a length greater than
\* zero and is valid UTF-8, new_from_source returns a failure value and the
\* process is never halted.
C6_RecoverableWithReadableLog ==
  (FailureStatusSeen /\ ErrorFlagClear /\ LogReadable) => Recovered

C6_Witness ==
  /\ FailureStatusSeen
  /\ ErrorFlagClear
  /\ LogReadable
  /\ LogLengths = {2}
  /\ LinkStatus = {0}
  /\ pc = "idle"
  /\ result.kind = "Err"

Called(name) == nops' = nops + 1 /\ op'.name = name

(***************************************************************************)
(* C7.  bind() makes the Shader's program the driver's active program and  *)
(* raises no bridge fault, unbind() makes the active program 0, and no     *)
(* other step changes the active program: after any sequence of bind and   *)
(* unbind calls the active program is that of the most recent bind(), or 0 *)
(* if an unbind() came last.                                               *)
(***************************************************************************)
C7_ActiveProgramFollowsBind ==
  [][ /\ Called("bind") =>
           /\ op'.self \in shaders
           /\ glCurrent' = op'.self
           /\ pc' = "idle"
           /\ ~panicking'
      /\ Called("unbind") => glCurrent' = 0
      /\ ~(Called("bind") \/ Called("unbind")) => glCurrent' = glCurrent
    ]_vars

C7_Witness ==
  /\ pc = "idle"
  /\ op.name = "bind"
  /\ Cardinality(shaders) = 2
  /\ glCurrent = op.self
  /\ \E other \in shaders : other > glCurrent
  /\ nops = 4

(***************************************************************************)
(* C8.  get_uniform returns absent exactly when the driver reports the     *)
(* location -1 for the name, and otherwise a Uniform carrying exactly the  *)
(* location the driver reported; it does not fail or halt, and no Uniform  *)
(* holds the location -1.                                                  *)
(***************************************************************************)
C8_GetUniformOption ==
  /\ -1 \notin uniforms
  /\ op.name = "get_uniform" =>
       /\ pc = "idle"
       /\ ~panicking
       /\ Len(calls) = 2
       /\ calls[1].fn = "GetUniformLocation"
       /\ calls[1].obj = op.self
       /\ calls[1].txt = <<op.s1>>
       /\ result.kind \in {"None", "Some"}
       /\ result.kind = "None" <=> calls[1].ret = -1
       /\ result.kind = "Some" =>
            /\ result.val = calls[1].ret
            /\ result.val \in uniforms

C8_Witness ==
  /\ op.name = "get_uniform"
  /\ pc = "idle"
  /\ result.kind = "None"
  /\ calls[1].ret = -1
  /\ uniforms # {}

UniformFns == {"Uniform1i", "Uniform1f", "Uniform3fv", "UniformMatrix4fv"}

DriverFnOf(name) ==
  IF name = "set_uniform_i32" THEN "Uniform1i"
  ELSE IF name = "set_uniform_f32" THEN "Uniform1f"
  ELSE IF name = "set_uniform_vec3f" THEN "Uniform3fv"
  ELSE "UniformMatrix4fv"

Setters ==
  {"set_uniform_i32", "set_uniform_f32", "set_uniform_vec3f", "set_uniform_mat4"}

UniformCalls == {i \in DOMAIN calls : calls[i].fn \in UniformFns}

(***************************************************************************)
(* C9.  One call of set_uniform_i32 / _f32 / _vec3f / _mat4 with a Uniform *)
(* u and a value v issues exactly one driver set-uniform call, of the      *)
(* matching type, carrying u's location and v, and no other set-uniform    *)
(* call.                                                                   *)
(***************************************************************************)
C9_OneSetUniformCall ==
  /\ op.name \in Setters =>
       /\ op.n1 \in uniforms
       /\ Cardinality(UniformCalls) = 1
       /\ \A i \in UniformCalls :
            /\ i = 1
            /\ calls[i].fn = DriverFnOf(op.name)
            /\ calls[i].obj = op.n1
            /\ calls[i].arg = op.n2
       /\ (pc = "idle" /\ glWritten.program # 0) =>
            /\ glWritten.location = op.n1
            /\ glWritten.value = op.n2
            /\ glWritten.fn = DriverFnOf(op.name)
  /\ op.name \notin Setters => UniformCalls = {}

C9_Witness ==
  /\ op.name = "set_uniform_f32"
  /\ pc = "idle"
  /\ Cardinality(UniformCalls) = 1
  /\ calls[1] = Call("Uniform1f", op.n1, op.n2, <<>>, 0)
  /\ op.n2 = MaxValue
  /\ glWritten = [program |-> glCurrent, fn |-> "Uniform1f",
                  location |-> op.n1, value |-> op.n2]

FileFailureReturned ==
  /\ pc = "idle"
  /\ op.name = "new_from_files"
  /\ reads # <<>>
  /\ reads[Len(reads)].state # "text"

(***************************************************************************)
(* C10.  new_from_files called with a path that cannot be opened or read   *)
(* returns a failure whose message contains that path; called with a path  *)
(* whose bytes are not valid UTF-8 it returns a failure whose message says *)
(* the content is not valid text and names the path; for the vertex path   *)
(* and for the fragment path alike.                                        *)
(***************************************************************************)
C10_FileFailureNamesPath ==
  FileFailureReturned =>
    LET failed == reads[Len(reads)] IN
    /\ result.kind = "Err"
    /\ failed.path = IF Len(reads) = 1 THEN op.s1 ELSE op.s2
    /\ IsInfix(<<failed.path>>, result.msg)
    /\ failed.state = "not_utf8" =>
         IsInfix(<<"' is not valid UTF-8.">>, result.msg)

\* the process has ended on a panic raised inside a constructor
ConstructorHalted == pc = "halted" /\ op.name \in Constructors

(***************************************************************************)
(* C11.  No driver handle leaks under error unwinding: when a bridge fault *)
(* or a failed assertion halts compile or link after a handle was created, *)
(* every shader and program handle created so far by that new_from_source  *)
(* invocation has been deleted by the time unwinding completes.            *)
(***************************************************************************)
C11_NoLeakUnderUnwinding ==
  ConstructorHalted => Created \cap Live = {}

\* the driver calls a step adds to the capture
NewCalls ==
  IF nops' # nops THEN calls'
  ELSE SubSeq(calls', Len(calls) + 1, Len(calls'))

NewDeletes ==
  {i \in DOMAIN NewCalls : NewCalls[i].fn \in {"DeleteShader", "DeleteProgram"}}

\* the handles owned by wrapper values: those of the constructor's frames,
\* those going out of scope, and the Programs inside the Shaders held
FrameOwned == frame.vertex \o frame.fragment \o frame.program
DropsOwned == [i \in DOMAIN drops |-> drops[i].id]
Owned == FrameOwned \o DropsOwned

ExclusivelyOwned ==
  /\ \A i, j \in DOMAIN Owned : Owned[i] = Owned[j] => i = j
  /\ \A i \in DOMAIN Owned : Owned[i] \notin shaders

(***************************************************************************)
(* C12.  Exclusive ownership and exactly-once deletion: in every state     *)
(* each live driver handle is owned by at most one wrapper value, and over *)
(* an execution that succeeds, fails to compile, fails to link or destroys *)
(* a Shader no delete call is issued for a handle that was already deleted *)
(* or never created, and each created handle is deleted exactly once: a    *)
(* delete call names a handle that is live, and when the operation has     *)
(* returned the only handles left live are the programs of the Shaders     *)
(* held.                                                                   *)
(***************************************************************************)
C12_ExclusiveOwnershipOneDelete ==
  [][ /\ \A i \in NewDeletes : NewCalls[i].obj # 0 => NewCalls[i].obj \in Live
      /\ ~panicking' =>
        /\ ExclusivelyOwned'
        /\ \A i \in DOMAIN Owned' : Owned'[i] # 0 => Owned'[i] \in Live'
        /\ \A s \in shaders' : s \in Live'
        /\ \A i \in NewDeletes :
             /\ NewCalls[i].obj \in Live
             /\ NewCalls[i].obj \notin Live'
        /\ Cardinality(NewDeletes) <= 1
        /\ pc' = "idle" => Live' = shaders'
    ]_vars

C12_Witness ==
  /\ ConstructorReturned
  /\ result.kind = "Err"
  /\ Count("DeleteShader") = 2
  /\ Count("DeleteProgram") = 1
  /\ Cardinality(DeleteCalled) = 3
  /\ DeleteCalled = Created
  /\ shaders # {}
  /\ Live = shaders

(***************************************************************************)
(* C13.  Every driver call issued by any operation, the delete calls made  *)
(* during destruction of a unit or a Program included, is immediately      *)
(* followed by a query of the driver's error state before the next driver  *)
(* call, and a detected error halts the process.                           *)
(***************************************************************************)
C13_EveryCallChecked ==
  /\ \A i \in DOMAIN calls :
       calls[i].fn # "GetError" =>
         /\ i + 1 \in DOMAIN calls
         /\ calls[i + 1].fn = "GetError"
  /\ (\E i \in Indices("GetError") : calls[i].ret # 0) =>
       (panicking /\ pc \in {"cleanup", "halted"})


CreatedZero ==
  \E i \in Indices("CreateShader") \cup Indices("CreateProgram") :
    calls[i].ret = 0

(***************************************************************************)
(* C14.  A create call that returns 0 is a fatal bridge fault: no source,  *)
(* compile, attach or link call is issued on handle 0, no wrapper holding  *)
(* handle 0 exists or is returned, and the operation halts.                *)
(***************************************************************************)
C14_ZeroHandleIsFatal ==
  /\ \A i \in DOMAIN calls :
       calls[i].fn \in {"ShaderSource", "CompileShader",
                        "AttachShader", "LinkProgram"} => calls[i].obj # 0
  /\ \A i \in DOMAIN Owned : Owned[i] # 0
  /\ 0 \notin shaders
  /\ CreatedZero => panicking


\* Program::link was entered by the operation in progress
LinkEntered == op.name \in Constructors /\ Count("CreateProgram") >= 1

\* calls of link on the program it created: the attach of a unit, the link
\* call and the link-status query
AttachOf(unit) ==
  {i \in Indices("AttachShader") : calls[i].arg = unit}
LinkCalls == Indices("LinkProgram")
LinkStatusQueries ==
  {i \in Indices("GetProgramiv") : calls[i].txt = <<"LINK_STATUS">>}
UnitDeletes == Indices("DeleteShader")
Units == CreatedShaders(VERTEX_SHADER) \cup CreatedShaders(FRAGMENT_SHADER)

(***************************************************************************)
(* C15.  In an execution of link that ends in success or in link failure,  *)
(* the delete calls of the two consumed units come after both attach       *)
(* calls, the link call and the link-status query, and both have been      *)
(* issued when the constructor's result reaches the caller.                *)
(***************************************************************************)
C15_UnitsDeletedAfterLinkBeforeReturn ==
  (LinkEntered /\ ~panicking) =>
    /\ \A d \in UnitDeletes :
         /\ calls[d].obj \in Units
         /\ \A u \in Units : \E a \in AttachOf(u) : a < d
         /\ \E l \in LinkCalls : l < d
         /\ \E q \in LinkStatusQueries : q < d
    /\ pc = "idle" =>
         /\ Cardinality(Units) = 2
         /\ \A u \in Units : \E d \in UnitDeletes : calls[d].obj = u

C15_Witness ==
  /\ LinkEntered /\ pc = "idle"
  /\ result.kind = "Err"
  /\ Cardinality(UnitDeletes) = 2
  /\ \E q \in LinkStatusQueries : calls[q].ret = 0 /\ \A d \in UnitDeletes : q < d


\* the program delete calls this step issues
NewProgramDeletes == {i \in NewDeletes : NewCalls[i].fn = "DeleteProgram"}

\* a step of Program::link's failure path / of dropping a Shader
LinkFailed == op.name \in Constructors /\ 0 \in LinkStatus

ProgramDeletedFirst ==
  \E i \in Indices("DeleteProgram") :
    /\ calls[i].obj \in CreatedPrograms
    /\ \A u \in Units : \E d \in UnitDeletes : calls[d].obj = u /\ i < d

FilesRead == [i \in DOMAIN reads |-> reads[i].path]

(***************************************************************************)
(* C17.  new_from_files reads the vertex file, then the fragment file, and *)
(* only then goes on to new_from_source: a file that cannot be read or is  *)
(* not UTF-8 gives a failure with no driver call issued and no handle      *)
(* created, and when the vertex file fails the fragment file is not read   *)
(* and the vertex file's failure is the one returned.                      *)
(***************************************************************************)
C17_FilesReadInOrderBeforeDriver ==
  op.name = "new_from_files" =>
    /\ FilesRead \in {<<>>, <<op.s1>>, <<op.s1, op.s2>>}
    /\ Len(reads) = 2 => reads[1].state = "text"
    /\ calls # <<>> =>
         /\ Len(reads) = 2
         /\ reads[2].state = "text"
    /\ FileFailureReturned =>
         LET failed == reads[Len(reads)] IN
         /\ calls = <<>> /\ Created = {}
         /\ result = file_contents(failed.path, failed.state, "")
    /\ pc = "idle" => reads # <<>>

\* the vertex file failed: one read, of the vertex path, and its failure
\* returned
C17_Witness ==
  /\ FileFailureReturned
  /\ op.s1 # op.s2
  /\ FilesRead = <<op.s1>>
  /\ reads[1].state = "not_utf8"
  /\ result = file_contents(op.s1, "not_utf8", "")
  /\ calls = <<>>


\* the bind calls in the capture of the operation that has just run
BindCalls == Indices("UseProgram")

ActiveDeleted == glCurrent # 0 /\ glCurrent \notin DOMAIN glPrograms

(***************************************************************************)
(* C19.  Destroying a Shader issues exactly one delete-program call, for   *)
(* its program handle, and no bind or unbind call, so the driver's active  *)
(* program is left as it was: a Shader destroyed while bound leaves the    *)
(* active program naming the deleted handle until a later bind or unbind.  *)
(***************************************************************************)
C19_DestructionKeepsBinding ==
  [][ /\ Called("drop") =>
           /\ Indices("DeleteProgram")' = {1}
           /\ calls'[1].obj = op'.self
           /\ BindCalls' = {}
           /\ glCurrent' = glCurrent
           /\ op'.self \notin DOMAIN glPrograms'
           /\ glCurrent = op'.self => ActiveDeleted'
      /\ (ActiveDeleted /\ ~(Called("bind") \/ Called("unbind"))) =>
           (ActiveDeleted' /\ glCurrent' = glCurrent)
    ]_vars

\* a Shader was destroyed while bound, another Shader is still held
C19_Witness ==
  /\ pc = "idle"
  /\ op.name = "drop"
  /\ shaders # {}
  /\ glCurrent = op.self
  /\ ActiveDeleted
  /\ Count("DeleteProgram") = 1

=============================================================================
